---- MODULE Spec2Model ----
(***************************************************************************)
(* tv_grab_fr_telerama.py: the grabber that turns the Télérama listings    *)
(* feed into an XMLTV document.  Strings are TLA+ strings handled          *)
(* character by character, as the Python code handles them.                *)
(***************************************************************************)
EXTENDS Integers, Sequences, FiniteSets, TLC

VARIABLES
    pc,                 \* position of the main program
    args,               \* argparse result: args.days, args.offset
    config,             \* the configuration file: present or not, its channels
    offset, days,       \* module-level offset and days (lines 558-562)
    channels,           \* load_configuration() result handed to write_xmltv_data;
                        \* in configure, the channels selected so far
    fi, fc,             \* fetch loop: day index i, index of channel_id in channels
    requested,          \* the feed requests made so far, in order
    telerama_programs,  \* list of fetched program lists
    mapped,             \* number of programs the mapping loop has gone through
    root,               \* children of the <tv> root element, in document order
    output_file,        \* <<>> until output.write(), then <<the document>>
    error,              \* "" or the exception that ended the run
    string, separator, delimiter1, delimiter2, \* split_outside_delimiters arguments
    result, tmp, level, i, spc,                \* and its locals; spc is its position
    available_channels, \* get_available_channels() result: <<id, name>> items in order
    ci,                 \* configure: number of items the for loop has gone through
    select_all, select_none, answer,   \* configure's locals
    prompts             \* the input() calls so far: item prompted and stripped answer

runVars == <<pc, args, config, offset, days, channels, fi, fc, requested,
             telerama_programs, mapped, root, output_file, error>>
splitVars == <<string, separator, delimiter1, delimiter2, result, tmp, level, i, spc>>
configureVars == <<available_channels, ci, select_all, select_none, answer, prompts>>
vars == <<runVars, splitVars, configureVars>>

----------------------------------------------------------------------------
(* Bounds of the model *)

\* total number of programs the feed delivers in one run
MaxRecords == 2
\* --days and --offset range over -2 .. MaxArg
MaxArg == 12
\* longest text given to split_outside_delimiters
MaxLen == 6
\* texts of the runs over every separator have at most MaxText characters
MaxText == 4
\* the result list holds at most MaxResult segments before memory runs out
MaxResult == 8
\* the channel list feed offers at most MaxChannels channels
MaxChannels == 3
\* invalid answers are typed only among the first MaxPrompts answers
MaxPrompts == 4

----------------------------------------------------------------------------
(* Python string primitives *)

Min(a, b) == IF a < b THEN a ELSE b

\* s[a:b] with 0 <= a, clipped at the end of the string
Slice(s, a, b) == SubSeq(s, a + 1, Min(b, Len(s)))

\* s[a]
CharAt(s, a) == SubSeq(s, a + 1, a + 1)

\* characters str.strip() and the regex class \s remove
Whitespace == {" ", "\t", "\n", "\r"}

Digits == {"0", "1", "2", "3", "4", "5", "6", "7", "8", "9"}

RECURSIVE LStrip(_)
LStrip(s) == IF Len(s) > 0 /\ CharAt(s, 0) \in Whitespace
             THEN LStrip(Slice(s, 1, Len(s))) ELSE s

RECURSIVE RStrip(_)
RStrip(s) == IF Len(s) > 0 /\ CharAt(s, Len(s) - 1) \in Whitespace
             THEN RStrip(Slice(s, 0, Len(s) - 1)) ELSE s

\* str.strip()
Strip(s) == RStrip(LStrip(s))

\* str.find(sub, from): index of the first occurrence at or after from, else -1
RECURSIVE Find(_, _, _)
Find(s, sub, from) ==
    IF from + Len(sub) > Len(s) THEN -1
    ELSE LET hits == {p \in from .. Min(from + 7, Len(s) - Len(sub)) :
                         Slice(s, p, p + Len(sub)) = sub}
         IN IF hits # {} THEN CHOOSE p \in hits : \A q \in hits : p <= q
            ELSE Find(s, sub, from + 8)

\* str.split(sep) for a non-empty sep
RECURSIVE StrSplit(_, _)
StrSplit(s, sep) ==
    LET at == Find(s, sep, 0) IN
    IF at < 0 THEN <<s>>
    ELSE <<Slice(s, 0, at)>> \o StrSplit(Slice(s, at + Len(sep), Len(s)), sep)

\* str.replace(old, new) for a non-empty old
RECURSIVE StrReplace(_, _, _)
StrReplace(s, old, new) ==
    LET at == Find(s, old, 0) IN
    IF at < 0 THEN s
    ELSE Slice(s, 0, at) \o new \o StrReplace(Slice(s, at + Len(old), Len(s)), old, new)

\* sep.join(parts)
RECURSIVE StrJoin(_, _)
StrJoin(parts, sep) ==
    IF Len(parts) = 0 THEN ""
    ELSE IF Len(parts) = 1 THEN parts[1]
    ELSE parts[1] \o sep \o StrJoin(Tail(parts), sep)

AllDigits(s) == Len(s) > 0 /\ \A k \in 0 .. Len(s) - 1 : CharAt(s, k) \in Digits

DigitValue(c) == CHOOSE v \in 0 .. 9 : ToString(v) = c

\* int(s) for a string of decimal digits
RECURSIVE ToInt(_)
ToInt(s) == IF Len(s) = 0 THEN 0
            ELSE 10 * ToInt(Slice(s, 0, Len(s) - 1)) + DigitValue(CharAt(s, Len(s) - 1))

\* "{:02d}".format(v) and "{:04d}".format(v) for v >= 0
Pad2(v) == IF v < 10 THEN "0" \o ToString(v) ELSE ToString(v)
Pad4(v) == IF v < 10 THEN "000" \o ToString(v)
           ELSE IF v < 100 THEN "00" \o ToString(v)
           ELSE IF v < 1000 THEN "0" \o ToString(v) ELSE ToString(v)

----------------------------------------------------------------------------
(* Program constants *)

DEFAULT_DAYS == 1
DEFAULT_OFFSET == 0
MAX_FETCH_DAYS == 11

\* telerama_to_xmltv_id
telerama_to_xmltv_id(channel_id) == channel_id \o ".tv.telerama.fr"

\* xmltv_to_telerama_id
xmltv_to_telerama_id(channel_id) == StrReplace(channel_id, ".tv.telerama.fr", "")

\* the categories table of translate_categories, as <<key, value>> rows
categories == <<
    <<"Ballet", "Music / Ballet / Dance">>,
    <<"Clips", "Music / Ballet / Dance">>,
    <<"Concert", "Music / Ballet / Dance">>,
    <<"Débat", "Talk show">>,
    <<"Dessin animé", "Cartoons / Puppets">>,
    <<"Divers", "">>,
    <<"Divertissement", "Variety show">>,
    <<"Documentaire", "Documentary">>,
    <<"Émission", "">>,
    <<"Emission du bien-être", "Fitness and health">>,
    <<"Emission du bien-êtr", "Fitness and health">>,
    <<"Feuilleton", "Soap / Melodrama / Folkloric">>,
    <<"Feuilleton sentimental", "Romance">>,
    <<"Film", "Movie / Drama">>,
    <<"Fin", "">>,
    <<"Fitness", "Fitness and health">>,
    <<"Interview", "Discussion / Interview / Debate">>,
    <<"Jeu", "Game show / Quiz / Contest">>,
    <<"Jeunesse", "Children's / Youth programmes">>,
    <<"Journal", "News / Current affairs">>,
    <<"Loterie", "Game show / Quiz / Contest">>,
    <<"Magazine", "Magazines / Reports / Documentary">>,
    <<"Météo", "News / Weather report">>,
    <<"Opéra", "Musical / Opera">>,
    <<"Politique", "Social / Political issues / Economics">>,
    <<"Religion", "Religion">>,
    <<"Série", "Movie / Drama">>,
    <<"Spectacle", "Performing arts">>,
    <<"Sport", "Sports">>,
    <<"Talk show", "Talk show">>,
    <<"Téléfilm", "Movie / Drama">>,
    <<"Téléréalité", "Variety show">>,
    <<"Théâtre", "Performing arts">>,
    <<"Tiercé", "Sports">>,
    <<"Variétés", "Variety show">>,
    <<"Voyance", "Leisure hobbies">>
>>

\* translate_categories: the table's value, '' for a category it does not hold
\* (the "Unmanaged category" line goes to stderr and changes no state)
translate_categories(category) ==
    IF \E k \in 1 .. Len(categories) : categories[k][1] = category
    THEN categories[CHOOSE k \in 1 .. Len(categories) : categories[k][1] = category][2]
    ELSE ""

----------------------------------------------------------------------------
(* split_outside_delimiters *)

\* the locals before the loop (lines 134-138)
SplitStart == [result |-> <<>>, tmp |-> "", level |-> 0, i |-> 0]

\* SplitStep with the "level == 0" test left out of line 140
SplitStepAnyLevel(str, sep, d1, d2, st) ==
    IF Slice(str, st.i, st.i + Len(sep)) = sep
    THEN [result |-> Append(st.result, st.tmp), tmp |-> "", level |-> st.level,
          i |-> st.i + Len(sep)]
    ELSE [result |-> st.result,
          tmp |-> st.tmp \o CharAt(str, st.i),
          level |-> IF Slice(str, st.i, st.i + Len(d1)) = d1 THEN st.level + 1
                    ELSE IF Slice(str, st.i, st.i + Len(d2)) = d2 THEN st.level - 1
                    ELSE st.level,
          i |-> st.i + 1]

\* one iteration of the while loop (lines 140-150)
SplitStep(str, sep, d1, d2, st) ==
    IF Slice(str, st.i, st.i + Len(sep)) = sep /\ st.level = 0
    THEN [result |-> Append(st.result, st.tmp), tmp |-> "", level |-> st.level,
          i |-> st.i + Len(sep)]
    ELSE [result |-> st.result,
          tmp |-> st.tmp \o CharAt(str, st.i),
          level |-> IF Slice(str, st.i, st.i + Len(d1)) = d1 THEN st.level + 1
                    ELSE IF Slice(str, st.i, st.i + Len(d2)) = d2 THEN st.level - 1
                    ELSE st.level,
          i |-> st.i + 1]

\* the loop run to its end and the final append (lines 139-153);
\* called by the mapper with ', ' as separator, which always advances i
RECURSIVE SplitLoop(_, _, _, _, _)
SplitLoop(str, sep, d1, d2, st) ==
    IF st.i < Len(str) THEN SplitLoop(str, sep, d1, d2, SplitStep(str, sep, d1, d2, st))
    ELSE Append(st.result, st.tmp)

split_outside_delimiters(str, sep, d1, d2) == SplitLoop(str, sep, d1, d2, SplitStart)

----------------------------------------------------------------------------
(* datetime, strptime and pytz's Europe/Paris *)

IsLeap(y) == (y % 4 = 0 /\ y % 100 # 0) \/ y % 400 = 0

DaysInMonth(y, m) == IF m = 2 THEN (IF IsLeap(y) THEN 29 ELSE 28)
                     ELSE IF m \in {4, 6, 9, 11} THEN 30 ELSE 31

\* the proleptic Gregorian day number of y-m-d, 1970-01-01 being day 0
DayNumber(y, m, d) ==
    LET yy == IF m <= 2 THEN y - 1 ELSE y
        era == yy \div 400
        yoe == yy - era * 400
        mp == IF m > 2 THEN m - 3 ELSE m + 9
        doy == (153 * mp + 2) \div 5 + d - 1
        doe == yoe * 365 + yoe \div 4 - yoe \div 100 + doy
    IN era * 146097 + doe - 719468

\* day of the week, 0 for Sunday (1970-01-01 was a Thursday)
Weekday(y, m, d) == (DayNumber(y, m, d) + 4) % 7

\* the last Sunday of a 31-day month
LastSunday(y, m) == 31 - Weekday(y, m, 31)

\* a field of '%d', '%m', '%H', '%M' or '%S': one or two digits
IsNum12(s) == Len(s) \in {1, 2} /\ AllDigits(s)

\* datetime.datetime.strptime(date + ' ' + time, '%d/%m/%Y %H:%M:%S'):
\* <<>> for the ValueError, else <<the naive datetime>>
strptime(date, time) ==
    LET dp == StrSplit(date, "/")
        tp == StrSplit(time, ":")
    IN IF /\ Len(dp) = 3 /\ Len(tp) = 3
          /\ IsNum12(dp[1]) /\ IsNum12(dp[2]) /\ Len(dp[3]) = 4 /\ AllDigits(dp[3])
          /\ IsNum12(tp[1]) /\ IsNum12(tp[2]) /\ IsNum12(tp[3])
       THEN LET y == ToInt(dp[3])  m == ToInt(dp[2])  d == ToInt(dp[1])
                hh == ToInt(tp[1])  mi == ToInt(tp[2])  ss == ToInt(tp[3])
            IN IF /\ y >= 1 /\ m \in 1 .. 12 /\ d >= 1 /\ d <= DaysInMonth(y, m)
                  /\ hh <= 23 /\ mi <= 59 /\ ss <= 59
               THEN <<[year |-> y, month |-> m, day |-> d,
                       hour |-> hh, minute |-> mi, second |-> ss]>>
               ELSE <<>>
       ELSE <<>>

SecondOfDay(dt) == dt.hour * 3600 + dt.minute * 60 + dt.second

\* seconds of the wall clock reading since 1970-01-01 00:00:00
WallSeconds(dt) == DayNumber(dt.year, dt.month, dt.day) * 86400 + SecondOfDay(dt)

\* france_tz.localize(dt), is_dst=False: the UTC offset in seconds attached to a
\* naive wall time.  Summer time runs from the last Sunday of March to the last
\* Sunday of October (the rule in force since 1996).  A wall time the spring
\* change skips (02:00-02:59) and one the autumn change repeats (02:00-02:59)
\* both get the standard offset.
ParisOffset(dt) ==
    LET wall == WallSeconds(dt)
        spring == DayNumber(dt.year, 3, LastSunday(dt.year, 3)) * 86400 + 3 * 3600
        autumn == DayNumber(dt.year, 10, LastSunday(dt.year, 10)) * 86400 + 2 * 3600
    IN IF wall >= spring /\ wall < autumn THEN 7200 ELSE 3600

localize(dt) == [naive |-> dt, utcoffset |-> ParisOffset(dt)]

\* the instant of an aware datetime, in seconds since the epoch
Instant(adt) == WallSeconds(adt.naive) - adt.utcoffset

\* adt + datetime.timedelta(days=1): the wall date moves, the tzinfo stays
PlusOneDay(adt) ==
    LET dt == adt.naive
        nxt == IF dt.day < DaysInMonth(dt.year, dt.month)
               THEN [dt EXCEPT !.day = dt.day + 1]
               ELSE IF dt.month < 12
               THEN [dt EXCEPT !.day = 1, !.month = dt.month + 1]
               ELSE [dt EXCEPT !.day = 1, !.month = 1, !.year = dt.year + 1]
    IN [adt EXCEPT !.naive = nxt]

\* "{:%Y%m%d%H%M%S %z}".format(adt)
FormatStamp(adt) ==
    LET dt == adt.naive
        off == adt.utcoffset
    IN Pad4(dt.year) \o Pad2(dt.month) \o Pad2(dt.day)
       \o Pad2(dt.hour) \o Pad2(dt.minute) \o Pad2(dt.second)
       \o " " \o (IF off < 0 THEN "-" ELSE "+")
       \o Pad2((IF off < 0 THEN -off ELSE off) \div 3600)
       \o Pad2(((IF off < 0 THEN -off ELSE off) % 3600) \div 60)

\* "{:%Y-%m-%d}_{}_{:%H:%M}".format(start, data[0], start) inside the icon URL
IconSrc(adt, id) ==
    LET dt == adt.naive
    IN "http://guidetv-iphone.telerama.fr/verytv/procedures/images/"
       \o Pad4(dt.year) \o "-" \o Pad2(dt.month) \o "-" \o Pad2(dt.day)
       \o "_" \o id \o "_" \o Pad2(dt.hour) \o ":" \o Pad2(dt.minute) \o ".jpg"

----------------------------------------------------------------------------
(* re.search over the details block, with re.MULTILINE *)

\* where '^' matches in front of a character
LineStarts(s) == {p \in 0 .. Len(s) - 1 : p = 0 \/ CharAt(s, p - 1) = "\n"}

\* where '$' matches
AtLineEnd(s, p) == p = Len(s) \/ CharAt(s, p) = "\n"

SetMin(S) == CHOOSE x \in S : \A y \in S : x <= y

\* the end of the greedy \s* that starts at p
SkipWs(s, p) ==
    IF p >= Len(s) THEN p
    ELSE CHOOSE e \in p .. Len(s) :
            /\ \A k \in p .. e - 1 : CharAt(s, k) \in Whitespace
            /\ e = Len(s) \/ CharAt(s, e) \notin Whitespace

\* the end of the greedy [0-9]* that starts at p
SkipDigits(s, p) ==
    IF p >= Len(s) THEN p
    ELSE CHOOSE e \in p .. Len(s) :
            /\ \A k \in p .. e - 1 : CharAt(s, k) \in Digits
            /\ e = Len(s) \/ CharAt(s, e) \notin Digits

\* the end of the greedy .* that starts at p ('.' matches all but the newline)
SkipLine(s, p) ==
    IF p >= Len(s) THEN p
    ELSE CHOOSE e \in p .. Len(s) :
            /\ \A k \in p .. e - 1 : CharAt(s, k) # "\n"
            /\ e = Len(s) \/ CharAt(s, e) = "\n"

\* whether \s*$ matches at p: the white space after p reaches a line end
SpaceToLineEnd(s, p) == \E e \in p .. SkipWs(s, p) : AtLineEnd(s, e)

\* re.search('^' + prefix, s, re.MULTILINE): <<>> for None, else <<group(0)>>
SearchPrefix(s, prefix) ==
    IF \E p \in LineStarts(s) : Slice(s, p, p + Len(prefix)) = prefix
    THEN <<prefix>> ELSE <<>>

\* re.search('^' + label + '\s*(.+)\s*$', s, re.MULTILINE): <<>> for None, else
\* <<group(1)>>.  \s* runs over the white space after the label, newlines
\* included, and (.+) takes the rest of the line it stops in; s is a stripped
\* field, so white space never runs to its end.
SearchValue(s, label) ==
    LET hits == {p \in LineStarts(s) :
                    /\ Slice(s, p, p + Len(label)) = label
                    /\ SkipWs(s, p + Len(label)) < Len(s)}
    IN IF hits = {} THEN <<>>
       ELSE LET from == SkipWs(s, SetMin(hits) + Len(label))
            IN <<Slice(s, from, SkipLine(s, from))>>

\* re.search('^' + label + '\s*([0-9]+)(?:/([0-9]+))?\s*$', s, re.MULTILINE), and
\* the same without the (?:/([0-9]+))? part when total is FALSE:
\* <<>> for None, else <<group(1)>> or <<group(1), group(2)>>
SearchNumber(s, label, total) ==
    LET D1(p) == SkipWs(s, p + Len(label))
        E1(p) == SkipDigits(s, D1(p))
        Has2(p) == total /\ CharAt(s, E1(p)) = "/" /\ SkipDigits(s, E1(p) + 1) > E1(p) + 1
                         /\ SpaceToLineEnd(s, SkipDigits(s, E1(p) + 1))
        hits == {p \in LineStarts(s) :
                    /\ Slice(s, p, p + Len(label)) = label
                    /\ E1(p) > D1(p)
                    /\ (Has2(p) \/ SpaceToLineEnd(s, E1(p)))}
    IN IF hits = {} THEN <<>>
       ELSE LET p == SetMin(hits)
            IN IF Has2(p)
               THEN <<Slice(s, D1(p), E1(p)), Slice(s, E1(p) + 1, SkipDigits(s, E1(p) + 1))>>
               ELSE <<Slice(s, D1(p), E1(p))>>

\* re.search('^HD$', s, re.MULTILINE) is not None
SearchHD(s) == \E p \in LineStarts(s) : Slice(s, p, p + 2) = "HD" /\ AtLineEnd(s, p + 2)

\* re.search(r'(.*) \((.*)\)', actor): <<>> for None, else <<group(1), group(2)>>.
\* Both groups are greedy: the last ' (' that a ')' follows, and the last ')'.
SearchRole(actor) ==
    LET opens == {p \in 0 .. Len(actor) - 1 :
                     /\ Slice(actor, p, p + 2) = " ("
                     /\ \E q \in p + 2 .. Len(actor) - 1 : CharAt(actor, q) = ")"}
    IN IF opens = {} THEN <<>>
       ELSE LET p == CHOOSE x \in opens : \A y \in opens : y <= x
                closes == {q \in p + 2 .. Len(actor) - 1 : CharAt(actor, q) = ")"}
                q == CHOOSE x \in closes : \A y \in closes : y <= x
            IN <<Slice(actor, 0, p), Slice(actor, p + 2, q)>>

----------------------------------------------------------------------------
(* xml.etree.ElementTree elements *)

\* Element(tag, attrib) with its text and children; attrib keeps insertion order
Element(tag, attrib, text, children) ==
    [tag |-> tag, attrib |-> attrib, text |-> text, children |-> children]

\* element.get(key): <<>> for None, else <<value>>
Get(el, key) ==
    IF \E k \in 1 .. Len(el.attrib) : el.attrib[k][1] = key
    THEN <<el.attrib[CHOOSE k \in 1 .. Len(el.attrib) : el.attrib[k][1] = key][2]>>
    ELSE <<>>

\* root.find('channel[@id="..."]') is not None
FindChannel(rt, channel_id) ==
    \E k \in 1 .. Len(rt) : rt[k].tag = "channel" /\ Get(rt[k], "id") = <<channel_id>>

\* an element that is there only when its condition holds
Opt(cond, el) == IF cond THEN <<el>> ELSE <<>>

\* one element per name of a credits line (the for loops of lines 295-331)
Names(tag, m) ==
    IF m = <<>> THEN <<>>
    ELSE LET names == split_outside_delimiters(m[1], ", ", "(", ")")
         IN [k \in 1 .. Len(names) |-> Element(tag, <<>>, names[k], <<>>)]

\* the actor elements, with the role attribute when ' (role)' is found
Actors(m) ==
    IF m = <<>> THEN <<>>
    ELSE LET names == split_outside_delimiters(m[1], ", ", "(", ")")
         IN [k \in 1 .. Len(names) |->
                LET r == SearchRole(names[k])
                IN IF r # <<>> THEN Element("actor", <<<<"role", r[2]>>>>, r[1], <<>>)
                   ELSE Element("actor", <<>>, names[k], <<>>)]

\* the credits element (lines 284-333): <<>> when no credits line matched
Credits(details) ==
    LET m_directors == SearchValue(details, "Réalisateur :")
        m_actors == SearchValue(details, "Acteurs :")
        m_composers == SearchValue(details, "Musique :")
        m_presenters == SearchValue(details, "Présentateur :")
        m_guests == SearchValue(details, "Invités :")
    IN Opt(m_directors # <<>> \/ m_actors # <<>> \/ m_composers # <<>>
             \/ m_presenters # <<>> \/ m_guests # <<>>,
           Element("credits", <<>>, "",
                   Names("director", m_directors) \o Actors(m_actors)
                   \o Names("composer", m_composers)
                   \o Names("presenter", m_presenters)
                   \o Names("guest", m_guests)))

\* Categories with the "m.group(1) != data[5]" test left out of line 355
CategoriesNoDedup(native, details) ==
    LET category == translate_categories(native)
        m == SearchValue(details, "Genre :")
    IN Opt(category # "", Element("category", <<>>, category, <<>>))
       \o Opt(native # "", Element("category", <<<<"lang", "fr">>>>, native, <<>>))
       \o Opt(m # <<>>,
              Element("category", <<<<"lang", "fr">>>>, IF m # <<>> THEN m[1] ELSE "", <<>>))

\* the category elements (lines 342-358)
Categories(native, details) ==
    LET category == translate_categories(native)
        m == SearchValue(details, "Genre :")
    IN Opt(category # "", Element("category", <<>>, category, <<>>))
       \o Opt(native # "", Element("category", <<<<"lang", "fr">>>>, native, <<>>))
       \o Opt(m # <<>> /\ m # <<native>>,
              Element("category", <<<<"lang", "fr">>>>, IF m # <<>> THEN m[1] ELSE "", <<>>))

\* EpisodeData with the "- 1" left out of line 377
EpisodeDataOneBased(m, details) ==
    LET n == SearchNumber(details, "Saison :", FALSE)
        season == IF n # <<>> THEN ToInt(n[1]) - 1 ELSE 0
        episode == ToInt(m[1])
    IN ToString(season) \o "." \o ToString(episode)
       \o (IF Len(m) = 2 THEN "/" \o m[2] ELSE "") \o ".0/1"

\* the text of the episode-num element (lines 372-381), m being the Episode match
EpisodeData(m, details) ==
    LET n == SearchNumber(details, "Saison :", FALSE)
        season == IF n # <<>> THEN ToInt(n[1]) - 1 ELSE 0
        episode == ToInt(m[1]) - 1
    IN ToString(season) \o "." \o ToString(episode)
       \o (IF Len(m) = 2 THEN "/" \o m[2] ELSE "") \o ".0/1"

\* the episode-num element (lines 368-387)
EpisodeNum(details) ==
    LET m == SearchNumber(details, "Episode :", TRUE)
    IN Opt(m # <<>>,
           Element("episode-num", <<<<"system", "xmltv_ns">>>>,
                   IF m # <<>> THEN EpisodeData(m, details) ELSE "", <<>>))

\* re.search(r'^En (16:9|4:3)', details, re.MULTILINE): <<>> for None, else <<group(1)>>
SearchAspect(details) ==
    LET hits == {p \in LineStarts(details) :
                    \/ Slice(details, p, p + 7) = "En 16:9"
                    \/ Slice(details, p, p + 6) = "En 4:3"}
    IN IF hits = {} THEN <<>>
       ELSE IF Slice(details, SetMin(hits), SetMin(hits) + 7) = "En 16:9"
       THEN <<"16:9">> ELSE <<"4:3">>

\* video_xml as lines 390-399 build it, m being a match of the aspect pattern
VideoXml(m, details) ==
    Element("video", <<>>, "",
            <<Element("aspect", <<>>, m[1], <<>>)>>
            \o Opt(SearchHD(details), Element("quality", <<>>, "HDTV", <<>>)))

\* the audio element (lines 401-414)
Audio(details) ==
    LET stereo == IF SearchPrefix(details, "En Dolby 5.1") # <<>> THEN "surround"
                  ELSE IF SearchPrefix(details, "En Dolby") # <<>> THEN "dolby"
                  ELSE IF SearchPrefix(details, "Stéréo") # <<>> THEN "stereo"
                  ELSE ""
    IN Opt(stereo # "",
           Element("audio", <<>>, "", <<Element("stereo", <<>>, stereo, <<>>)>>))

\* re.search('^(Inédit|Première diffusion)', details, re.MULTILINE)
SearchPremiere(details) ==
    LET hits == {p \in LineStarts(details) :
                    \/ Slice(details, p, p + 6) = "Inédit"
                    \/ Slice(details, p, p + 18) = "Première diffusion"}
    IN IF hits = {} THEN <<>>
       ELSE IF Slice(details, SetMin(hits), SetMin(hits) + 6) = "Inédit"
       THEN <<"Inédit">> ELSE <<"Première diffusion">>

\* the subtitles element (lines 427-438)
Subtitles(details) ==
    LET subtitles == IF SearchPrefix(details, "VOST") # <<>> THEN "onscreen"
                     ELSE IF SearchPrefix(details, "Sous-titré") # <<>> THEN "teletext"
                     ELSE ""
    IN Opt(subtitles # "", Element("subtitles", <<<<"type", subtitles>>>>, "", <<>>))

\* the children appended to program_xml, in the order of lines 266-462.
\* video_xml is built (lines 390-399) and appended nowhere.
ProgramChildren(data, start) ==
    LET details == data[8]
        m_sub == SearchValue(details, "Sous-titre :")
        m_year == SearchValue(details, "Année :")
        m_prem == SearchPremiere(details)
    IN <<Element("title", <<>>, data[3], <<>>)>>
       \o Opt(m_sub # <<>>, Element("sub-title", <<>>, IF m_sub # <<>> THEN m_sub[1] ELSE "", <<>>))
       \o Opt(data[7] # "", Element("desc", <<>>, data[7], <<>>))
       \o Credits(details)
       \o Opt(m_year # <<>>, Element("date", <<>>, IF m_year # <<>> THEN m_year[1] ELSE "", <<>>))
       \o Categories(data[6], details)
       \o <<Element("icon", <<<<"src", IconSrc(start, data[1])>>>>, "", <<>>)>>
       \o EpisodeNum(details)
       \o Audio(details)
       \o Opt(SearchPrefix(details, "Rediffusion") # <<>>,
              Element("previously-shown", <<>>, "", <<>>))
       \o Opt(m_prem # <<>>,
              Element("premiere", <<<<"lang", "fr">>>>, IF m_prem # <<>> THEN m_prem[1] ELSE "", <<>>))
       \o Subtitles(details)
       \o Opt(data[9] # "0",
              Element("rating", <<>>, "", <<Element("value", <<>>, data[9], <<>>)>>))
       \o Opt(data[11] \in {"1", "2", "3"},
              Element("star-rating", <<>>, "",
                      <<Element("value", <<>>, data[11] \o "/3", <<>>)>>))
       \o Opt(data[12] # "", Element("review", <<<<"type", "text">>, <<"lang", "fr">>>>,
                                     data[12], <<>>))

\* stop as lines 246-250 leave it
StopTime(start, stop) == IF Instant(start) > Instant(stop) THEN PlusOneDay(stop) ELSE stop

\* program_xml (lines 252-462)
ProgramXml(data, start, stop) ==
    LET m == SearchValue(data[8], "Showview :")
    IN Element("programme",
               <<<<"start", FormatStamp(start)>>,
                 <<"stop", FormatStamp(StopTime(start, stop))>>,
                 <<"channel", telerama_to_xmltv_id(data[1])>>>>
               \o Opt(m # <<>>, <<"showview", IF m # <<>> THEN m[1] ELSE "">>),
               "", ProgramChildren(data, start))

\* data = [i.strip() for i in program.split('$$$')] (line 231); data[k] of
\* the code is data[k + 1] here
Fields(program) ==
    LET parts == StrSplit(program, "$$$")
    IN [k \in 1 .. Len(parts) |-> Strip(parts[k])]

\* WithChannel with root.append in the place of root.insert(0, ...) at line 240
WithChannelAppended(rt, data) ==
    IF FindChannel(rt, telerama_to_xmltv_id(data[1])) THEN rt
    ELSE Append(rt, Element("channel", <<<<"id", telerama_to_xmltv_id(data[1])>>>>, "",
                            <<Element("display-name", <<>>, data[2], <<>>)>>))

\* WithChannel with the root.find test of line 235 left out
WithChannelAlways(rt, data) ==
    <<Element("channel", <<<<"id", telerama_to_xmltv_id(data[1])>>>>, "",
              <<Element("display-name", <<>>, data[2], <<>>)>>)>> \o rt

\* root with the channel of data declared (lines 233-240): a new declaration
\* goes to position 0
WithChannel(rt, data) ==
    IF FindChannel(rt, telerama_to_xmltv_id(data[1])) THEN rt
    ELSE <<Element("channel", <<<<"id", telerama_to_xmltv_id(data[1])>>>>, "",
                   <<Element("display-name", <<>>, data[2], <<>>)>>)>> \o rt

\* MapProgram with a record of fewer than 13 fields skipped, not fatal
MapProgramSkipsShort(program, rt) ==
    LET data == Fields(program)
    IN IF Len(data) < 13 THEN [error |-> "", root |-> rt]
       ELSE LET rt1 == WithChannel(rt, data)
                t1 == strptime(data[13], data[4])
                t2 == strptime(data[13], data[5])
            IN IF t1 = <<>> \/ t2 = <<>> THEN [error |-> "ValueError", root |-> rt1]
               ELSE IF SearchAspect(data[8]) = <<>>
               THEN [error |-> "AttributeError", root |-> rt1]
               ELSE [error |-> "",
                     root |-> Append(rt1, ProgramXml(data, localize(t1[1]),
                                                     localize(t2[1])))]

\* one pass of the loop body (lines 231-464) over one program: the exception it
\* raises, if any, and root as it leaves it
MapProgram(program, rt) ==
    LET data == Fields(program)
        declared == FindChannel(rt, telerama_to_xmltv_id(data[1]))
    IN IF ~declared /\ Len(data) < 2 THEN [error |-> "IndexError", root |-> rt]
       ELSE LET rt1 == WithChannel(rt, data)
            IN IF Len(data) < 13 THEN [error |-> "IndexError", root |-> rt1]
               ELSE LET t1 == strptime(data[13], data[4])
                        t2 == strptime(data[13], data[5])
                    IN IF t1 = <<>> \/ t2 = <<>> THEN [error |-> "ValueError", root |-> rt1]
                       ELSE IF SearchAspect(data[8]) = <<>>
                       THEN [error |-> "AttributeError", root |-> rt1]
                       ELSE [error |-> "",
                             root |-> Append(rt1, ProgramXml(data, localize(t1[1]),
                                                             localize(t2[1])))]

----------------------------------------------------------------------------
(* The feed: what get_telerama_programs can return *)

\* a feed record with the given fields, as the server writes it
Raw(fields) == StrJoin(fields, "$$$")

\* the 13 fields of an ordinary record: channel id, channel name, title, start,
\* stop, category, synopsis, details, rating, (unused), stars, review, date
BaseFields == <<"1", "TF1", "Le journal", "20:00:00", "20:45:00", "Journal", "",
                "En 16:9\nHD", "0", "", "0", "", "01/03/2024">>

\* BaseFields with field k of the code (0-based) replaced
With(fields, k, v) == [fields EXCEPT ![k + 1] = v]

\* the records of the document-level runs: two names for channel 1, three
\* channels, and two records cut short
Records == {
    Raw(BaseFields),
    Raw(With(With(With(BaseFields, 1, "TF1 HD"), 2, "Le 20h"), 7, "Sous-titre : Le 20h\nEn 4:3")),
    Raw(With(With(With(With(With(BaseFields, 0, "2"), 1, " France 2 "), 2, "Le film"),
                  3, "23:30:00"), 4, "00:45:00")),
    Raw(With(With(With(BaseFields, 0, "3"), 1, "France 3"), 2, "Thalassa")),
    Raw(SubSeq(With(BaseFields, 0, "2"), 1, 12)),
    Raw(SubSeq(With(BaseFields, 0, "3"), 1, 1))
}

\* all sequences over S of length at most n
SeqsUpTo(S, n) == UNION {[1 .. k -> S] : k \in 0 .. n}

RECURSIVE Flatten(_)
Flatten(lists) == IF lists = <<>> THEN <<>> ELSE Head(lists) \o Flatten(Tail(lists))

\* the programs fetched so far, in the order the mapping loop takes them
Programs == Flatten(telerama_programs)

----------------------------------------------------------------------------
(* The main program *)

None == <<>>

\* argparse values of --days and --offset: None when the flag is absent
ArgValues(S) == {None} \cup {<<v>> : v \in S}

\* "x or default" on an optional int: None and 0 are both falsy
OrDefault(x, default) == IF x # None /\ x[1] # 0 THEN x[1] ELSE default

\* CappedDays with "- offset" left out of line 562
CappedDaysNoOffset(d, o) == IF o + d > MAX_FETCH_DAYS THEN MAX_FETCH_DAYS ELSE d

\* days after the cap of lines 560-562
CappedDays(d, o) == IF o + d > MAX_FETCH_DAYS THEN MAX_FETCH_DAYS - o ELSE d

IdleConfigure ==
    /\ available_channels = <<>> /\ ci = 0 /\ select_all = FALSE /\ select_none = FALSE
    /\ answer = "" /\ prompts = <<>>

IdleSplit ==
    /\ string = "" /\ separator = "" /\ delimiter1 = "" /\ delimiter2 = ""
    /\ result = <<>> /\ tmp = "" /\ level = 0 /\ i = 0 /\ spc = "idle"

\* the state at the start of the module-level code, for given command lines and
\* configuration files
InitRun(dayArgs, offsetArgs, configs) ==
    /\ pc = "main"
    /\ args \in [days : dayArgs, offset : offsetArgs]
    /\ config \in configs
    /\ offset = 0 /\ days = 0 /\ channels = <<>>
    /\ fi = 0 /\ fc = 0 /\ requested = <<>>
    /\ telerama_programs = <<>> /\ mapped = 0
    /\ root = <<>> /\ output_file = <<>> /\ error = ""
    /\ IdleSplit
    /\ IdleConfigure

NoConfig == [exists |-> FALSE, channels |-> <<>>]
Config(chs) == [exists |-> TRUE, channels |-> chs]

\* lines 556-568: offset and days from the arguments, the configuration file
\* check, and the entry into write_xmltv_data
Main ==
    /\ pc = "main"
    /\ offset' = OrDefault(args.offset, DEFAULT_OFFSET)
    /\ days' = CappedDays(OrDefault(args.days, DEFAULT_DAYS),
                          OrDefault(args.offset, DEFAULT_OFFSET))
    /\ IF config.exists
       THEN pc' = "run" /\ channels' = config.channels
       ELSE pc' = "exit" /\ channels' = channels
    /\ UNCHANGED <<args, config, fi, fc, requested, telerama_programs, mapped, root,
                   output_file, error, splitVars, configureVars>>

\* the fetch loops of lines 221-226 have run to their end
FetchDone == fi >= days \/ Len(channels) = 0

\* the request get_telerama_programs makes for channels[fc] and day i (line 159):
\* the date as days after today, and the chaine parameter
Request == [date |-> fi + offset, chaine |-> xmltv_to_telerama_id(channels[fc + 1])]

\* one call of get_telerama_programs (lines 223-226); the feed answers with any
\* list of programs of the catalog, at most limit programs over the whole run
Fetch(catalog, limit) ==
    /\ pc = "run" /\ ~FetchDone
    /\ \E programs \in SeqsUpTo(catalog, limit - Len(Programs)) :
          telerama_programs' = Append(telerama_programs, programs)
    /\ requested' = Append(requested, Request)
    /\ IF fc + 1 < Len(channels) THEN fc' = fc + 1 /\ fi' = fi
       ELSE fc' = 0 /\ fi' = fi + 1
    /\ UNCHANGED <<pc, args, config, offset, days, channels, mapped, root,
                   output_file, error, splitVars, configureVars>>

\* the loop body of lines 230-464 for the next program
Map ==
    /\ pc = "run" /\ FetchDone /\ mapped < Len(Programs)
    /\ LET out == MapProgram(Programs[mapped + 1], root)
       IN /\ root' = out.root
          /\ error' = out.error
          /\ pc' = IF out.error = "" THEN "run" ELSE "failed"
    /\ mapped' = mapped + 1
    /\ UNCHANGED <<args, config, offset, days, channels, fi, fc, requested,
                   telerama_programs, output_file, splitVars, configureVars>>

\* output.write (line 466)
Write ==
    /\ pc = "run" /\ FetchDone /\ mapped = Len(Programs)
    /\ output_file' = <<root>>
    /\ pc' = "done"
    /\ UNCHANGED <<args, config, offset, days, channels, fi, fc, requested,
                   telerama_programs, mapped, root, error, splitVars,
                   configureVars>>

OneChannel == <<"1.tv.telerama.fr">>
TwoChannels == <<"1.tv.telerama.fr", "2.tv.telerama.fr">>

\* runs over one or two days and channels, the feed delivering Records
Init == InitRun(ArgValues({2}), {None},
                {NoConfig, Config(OneChannel), Config(TwoChannels)})

Next == Main \/ Fetch(Records, MaxRecords) \/ Map \/ Write

Spec == Init /\ [][Next]_vars

\* every command line, the feed delivering at most one program
MainRecords == {Raw(BaseFields), Raw(SubSeq(BaseFields, 1, 12))}

InitMain == InitRun(ArgValues(-2 .. MaxArg), ArgValues(-2 .. MaxArg),
                    {NoConfig, Config(<<>>), Config(OneChannel), Config(TwoChannels)})

NextMain == Main \/ Fetch(MainRecords, 1) \/ Map \/ Write

SpecMain == InitMain /\ [][NextMain]_vars

----------------------------------------------------------------------------
(* Single records: every run fetches one day of one channel *)

\* the lines of a details block, absent ones ("") left out
RECURSIVE Block(_)
Block(lines) ==
    IF lines = <<>> THEN ""
    ELSE IF Head(lines) = "" THEN Block(Tail(lines))
    ELSE IF Block(Tail(lines)) = "" THEN Head(lines)
    ELSE Head(lines) \o "\n" \o Block(Tail(lines))

\* broadcast dates: an ordinary day, the days of the two clock changes of 2024
\* and the days around them, the last day of February and of the year
Dates == {"01/03/2024", "29/02/2024", "30/03/2024", "31/03/2024", "26/10/2024",
          "27/10/2024", "31/12/2024"}
Starts == {"00:00:00", "01:30:00", "02:30:00", "20:00:00", "23:30:00"}
Stops == {"00:00:00", "00:45:00", "03:00:00", "20:00:00", "21:30:00", "23:30:00"}

TimingRecords ==
    {Raw(With(With(With(BaseFields, 12, d), 3, a), 4, b)) :
        d \in Dates, a \in Starts, b \in Stops}

EpisodeLines == {"", "Episode : 3/10", "Episode : 1", "Episode :12/24 ", "Episode : 0",
                 "Episode : 3/", "Episode : trois", "Episode : 3 sur 10"}
SeasonLines == {"", "Saison : 2", "Saison :10 ", "Saison : 0", "Saison : deux"}

EpisodeRecords ==
    {Raw(With(BaseFields, 7, Block(<<e, "En 16:9", s>>))) :
        e \in EpisodeLines, s \in SeasonLines}
    \cup {Raw(With(BaseFields, 7, Block(<<s, "Episode : x", e, "En 4:3">>))) :
        e \in {"Episode : 7", "Episode : 2/5"}, s \in {"Saison : 3", "Saison 4"}}

NativeCategories == {"", "Film", "Série", "Divers", "Religion", "Téléachat", "film"}
GenreLines == {"", "Genre : Film", "Genre :Série ", "Genre : Comédie", "Genre : Religion",
               "Genre : Téléachat", "Genre: Film"}

CategoryRecords ==
    {Raw(With(With(BaseFields, 5, c), 7, Block(<<"En 4:3", g>>))) :
        c \in NativeCategories, g \in GenreLines}

AspectLines == {"", "En 16:9", "En 4:3", "En 16:10", " En 16:9"}
QualityLines == {"", "HD", "HDTV", "HD 1080"}

VideoRecords ==
    {Raw(With(BaseFields, 7, Block(<<a, q>>))) : a \in AspectLines, q \in QualityLines}
    \cup {Raw(With(BaseFields, 7, Block(<<"HD", a>>))) : a \in AspectLines}

\* details blocks with every optional line, with none, and with one at a time
OptionalLines == <<"Showview : 12345", "Sous-titre : Le 20h",
                   "Réalisateur : A B, C D",
                   "Acteurs : Jean Dupont (Paul), Marie Curie, X (a, b)",
                   "Musique : M", "Présentateur : P", "Invités : G, H",
                   "Année : 2015", "Genre : Film", "Episode : 3/10", "Saison : 2",
                   "HD", "En Dolby 5.1", "En Dolby", "Stéréo", "Rediffusion", "Inédit",
                   "Première diffusion", "VOST", "Sous-titré">>

OptionalRecords ==
    {Raw(With(BaseFields, 7, Block(OptionalLines \o <<"En 16:9">>))),
     Raw(With(BaseFields, 7, Block(OptionalLines))),
     Raw(With(BaseFields, 7, "")),
     Raw(With(With(With(With(BaseFields, 6, "Le résumé"), 8, "12"), 10, "2"), 11, "Bien"))}
    \cup {Raw(With(BaseFields, 7, Block(<<OptionalLines[k], a>>))) :
            k \in 1 .. Len(OptionalLines), a \in {"", "En 4:3"}}

\* records that are not 13 well-formed fields
MalformedRecords ==
    {Raw(SubSeq(BaseFields, 1, k)) : k \in 1 .. 12}
    \cup {Raw(With(BaseFields, 12, "2024-03-01")), Raw(With(BaseFields, 3, "20h00")),
          Raw(With(BaseFields, 4, "24:00:00")), Raw(With(BaseFields, 12, "30/02/2024")),
          Raw(BaseFields \o <<"extra">>)}

RichRecords == TimingRecords \cup EpisodeRecords \cup CategoryRecords \cup VideoRecords
               \cup OptionalRecords \cup MalformedRecords

InitMap == InitRun({None}, {None}, {Config(OneChannel)})

NextMap == Main \/ Fetch(RichRecords, 1) \/ Map \/ Write

SpecMap == InitMap /\ [][NextMap]_vars

----------------------------------------------------------------------------
(* split_outside_delimiters on its own *)

SplitAlphabet == {",", " ", "(", ")"}

RECURSIVE StringsOfLen(_)
StringsOfLen(n) == IF n = 0 THEN {""}
                   ELSE {s \o c : s \in StringsOfLen(n - 1), c \in SplitAlphabet}

Strings == UNION {StringsOfLen(n) : n \in 0 .. MaxLen}

\* the separators and the delimiter pairs of the calls (the mapper's is ', ', '(', ')')
Separators == {", ", ","}
DelimiterPairs == {<<"(", ")">>}

InitSplit ==
    /\ string \in Strings
    /\ separator \in Separators
    /\ \E d \in DelimiterPairs : delimiter1 = d[1] /\ delimiter2 = d[2]
    /\ result = SplitStart.result /\ tmp = SplitStart.tmp
    /\ level = SplitStart.level /\ i = SplitStart.i
    /\ spc = "loop"
    /\ pc = "idle" /\ args = [days |-> None, offset |-> None] /\ config = NoConfig
    /\ offset = 0 /\ days = 0 /\ channels = <<>>
    /\ fi = 0 /\ fc = 0 /\ requested = <<>>
    /\ telerama_programs = <<>> /\ mapped = 0
    /\ root = <<>> /\ output_file = <<>> /\ error = ""
    /\ IdleConfigure

\* one iteration of the while loop (lines 139-150)
SplitIterate ==
    /\ spc = "loop" /\ i < Len(string)
    /\ Len(result) < MaxResult
    /\ LET st == SplitStep(string, separator, delimiter1, delimiter2,
                           [result |-> result, tmp |-> tmp, level |-> level, i |-> i])
       IN result' = st.result /\ tmp' = st.tmp /\ level' = st.level /\ i' = st.i
    /\ UNCHANGED <<string, separator, delimiter1, delimiter2, spc, runVars,
                   configureVars>>

\* the loop exit, the last append and the return (lines 151-153)
SplitReturn ==
    /\ spc = "loop" /\ ~(i < Len(string))
    /\ result' = Append(result, tmp)
    /\ spc' = "done"
    /\ UNCHANGED <<string, separator, delimiter1, delimiter2, tmp, level, i, runVars,
                   configureVars>>

NextSplit == SplitIterate \/ SplitReturn

SpecSplit == InitSplit /\ [][NextSplit]_vars

\* result.append (line 141) once the list has used up the memory: MemoryError
SplitExhaust ==
    /\ spc = "loop" /\ i < Len(string)
    /\ Len(result) >= MaxResult
    /\ spc' = "failed"
    /\ UNCHANGED <<string, separator, delimiter1, delimiter2, result, tmp, level, i,
                   runVars, configureVars>>

\* calls with any separator and delimiters: empty ones, a delimiter that is the
\* separator, equal delimiters, texts with unbalanced delimiters
Texts == UNION {StringsOfLen(n) : n \in 0 .. MaxText}
AnySeparators == {"", ",", ", ", "("}
AnyDelimiterPairs == {<<"(", ")">>, <<"", "">>, <<"(", "(">>, <<",", ")">>}

InitSplitAny ==
    /\ string \in Texts
    /\ separator \in AnySeparators
    /\ \E d \in AnyDelimiterPairs : delimiter1 = d[1] /\ delimiter2 = d[2]
    /\ result = SplitStart.result /\ tmp = SplitStart.tmp
    /\ level = SplitStart.level /\ i = SplitStart.i
    /\ spc = "loop"
    /\ pc = "idle" /\ args = [days |-> None, offset |-> None] /\ config = NoConfig
    /\ offset = 0 /\ days = 0 /\ channels = <<>>
    /\ fi = 0 /\ fc = 0 /\ requested = <<>>
    /\ telerama_programs = <<>> /\ mapped = 0
    /\ root = <<>> /\ output_file = <<>> /\ error = ""
    /\ IdleConfigure

NextSplitAny == SplitIterate \/ SplitReturn \/ SplitExhaust

\* the interpreter keeps executing the call
SpecSplitAny == InitSplitAny /\ [][NextSplitAny]_vars /\ WF_vars(NextSplitAny)

-----------------------------------------------------------------------------
(* The configuration wizard *)

\* get_available_channels(): the items of the dictionary, in insertion order,
\* for a channel list feed of n channels
AvailableChannels(n) ==
    [k \in 1 .. n |-> <<telerama_to_xmltv_id(ToString(k)), "Chaine " \o ToString(k)>>]

\* what the user types at a prompt
TypedAnswers == {"", "yes", "no", "all", "none", " yes ", "none\n", "oui", "Yes", "y"}

\* the answers line 483 accepts
ValidAnswers == {"", "yes", "no", "all", "none"}

\* Selected with "select_all or" left out of line 488
SelectedYesOnly(chs, channel_id, all, ans) ==
    IF ans = "yes" THEN Append(chs, channel_id) ELSE chs

\* lines 488-489: channels after the item channel_id
Selected(chs, channel_id, all, ans) ==
    IF all \/ ans = "yes" THEN Append(chs, channel_id) ELSE chs

\* the state at the entry of configure (lines 473-477)
InitConfigure ==
    /\ pc = "configure"
    /\ \E n \in 0 .. MaxChannels : available_channels = AvailableChannels(n)
    /\ channels = <<>>
    /\ select_all = FALSE /\ select_none = FALSE
    /\ ci = 0 /\ answer = "" /\ prompts = <<>>
    /\ args = [days |-> None, offset |-> None] /\ config = NoConfig
    /\ offset = 0 /\ days = 0
    /\ fi = 0 /\ fc = 0 /\ requested = <<>>
    /\ telerama_programs = <<>> /\ mapped = 0
    /\ root = <<>> /\ output_file = <<>> /\ error = ""
    /\ IdleSplit

\* one input() call for the current item (lines 481-485) and, on a valid answer,
\* the rest of the loop body (lines 486-493)
Prompt ==
    /\ pc = "configure" /\ ci < Len(available_channels)
    /\ ~select_all /\ ~select_none
    /\ \E typed \in TypedAnswers :
          LET a == Strip(typed) IN
          /\ answer' = a
          /\ prompts' = Append(prompts, [item |-> ci + 1, answer |-> a])
          /\ IF a \in ValidAnswers
             THEN /\ select_all' = (a = "all")
                  /\ select_none' = (a = "none")
                  /\ channels' = Selected(channels, available_channels[ci + 1][1],
                                          a = "all", a)
                  /\ ci' = ci + 1
             ELSE /\ Len(prompts) < MaxPrompts
                  /\ UNCHANGED <<select_all, select_none, channels, ci>>
    /\ UNCHANGED <<pc, args, config, offset, days, fi, fc, requested, telerama_programs,
                   mapped, root, output_file, error, available_channels, splitVars>>

\* the loop body for an item that comes after the answer all or none
\* (lines 479, 488-493)
NoPrompt ==
    /\ pc = "configure" /\ ci < Len(available_channels)
    /\ select_all \/ select_none
    /\ channels' = Selected(channels, available_channels[ci + 1][1], select_all, answer)
    /\ ci' = ci + 1
    /\ UNCHANGED <<pc, args, config, offset, days, fi, fc, requested, telerama_programs,
                   mapped, root, output_file, error, available_channels, select_all,
                   select_none, answer, prompts, splitVars>>

\* write_configuration (line 495) and sys.exit() (line 554)
WriteConfiguration ==
    /\ pc = "configure" /\ ci = Len(available_channels)
    /\ config' = Config(channels)
    /\ pc' = "configured"
    /\ UNCHANGED <<args, offset, days, channels, fi, fc, requested, telerama_programs,
                   mapped, root, output_file, error, splitVars, configureVars>>

NextConfigure == Prompt \/ NoPrompt \/ WriteConfiguration

SpecConfigure == InitConfigure /\ [][NextConfigure]_vars

----------------------------------------------------------------------------
(* Reading a document and a record back, for the properties below *)

Programmes(doc) == SelectSeq(doc, LAMBDA e : e.tag = "programme")
ChannelDecls(doc) == SelectSeq(doc, LAMBDA e : e.tag = "channel")

\* the programs the mapping loop has gone through
Processed == SubSeq(Programs, 1, mapped)

\* the children of an element with a given tag
Children(el, tag) == SelectSeq(el.children, LAMBDA e : e.tag = tag)

\* the instant a 'YYYYMMDDHHMMSS +HHMM' attribute denotes, in seconds
StampInstant(stamp) ==
    LET num(a, b) == ToInt(Slice(stamp, a, b))
        off == num(16, 18) * 3600 + num(18, 20) * 60
    IN DayNumber(num(0, 4), num(4, 6), num(6, 8)) * 86400
       + num(8, 10) * 3600 + num(10, 12) * 60 + num(12, 14)
       - (IF CharAt(stamp, 15) = "-" THEN -off ELSE off)

\* the day number of the date a 'YYYYMMDDHHMMSS +HHMM' attribute shows
StampDay(stamp) ==
    DayNumber(ToInt(Slice(stamp, 0, 4)), ToInt(Slice(stamp, 4, 6)), ToInt(Slice(stamp, 6, 8)))

\* the day number of a 'dd/mm/YYYY' field
FieldDay(date) ==
    LET dp == StrSplit(date, "/") IN DayNumber(ToInt(dp[3]), ToInt(dp[2]), ToInt(dp[1]))

\* the second of the day of an 'HH:MM:SS' field
FieldSecond(time) ==
    LET tp == StrSplit(time, ":") IN ToInt(tp[1]) * 3600 + ToInt(tp[2]) * 60 + ToInt(tp[3])

----------------------------------------------------------------------------
(* C1 *)

\* C1: for every mapped program the emitted stop instant is strictly later than
\* the emitted start instant; when the stop time of day is less than or equal to
\* the start time of day, stop is on the day after the broadcast date, and
\* otherwise on the broadcast date.
C1_StopAfterStart ==
    \A k \in 1 .. Len(Programmes(root)) :
        LET prog == Programmes(root)[k]
            data == Fields(Programs[k])
            start == Get(prog, "start")[1]
            stop == Get(prog, "stop")[1]
        IN /\ StampInstant(stop) > StampInstant(start)
           /\ StampDay(start) = FieldDay(data[13])
           /\ StampDay(stop) = IF FieldSecond(data[5]) <= FieldSecond(data[4])
                               THEN FieldDay(data[13]) + 1 ELSE FieldDay(data[13])

----------------------------------------------------------------------------
(* C2, C3 *)

\* the namespaced channel identifier of a feed record
RecordId(program) == telerama_to_xmltv_id(Fields(program)[1])

\* the identifiers of a list of records, each once, in the order they first appear
RECURSIVE FirstSeen(_)
FirstSeen(records) ==
    IF records = <<>> THEN <<>>
    ELSE LET before == FirstSeen(SubSeq(records, 1, Len(records) - 1))
             id == RecordId(records[Len(records)])
         IN IF \E k \in 1 .. Len(before) : before[k] = id THEN before
            ELSE Append(before, id)

Reverse(seq) == [k \in 1 .. Len(seq) |-> seq[Len(seq) + 1 - k]]

\* the identifiers of the channel declarations of a document, in document order
DeclaredIds(doc) ==
    [k \in 1 .. Len(ChannelDecls(doc)) |-> Get(ChannelDecls(doc)[k], "id")[1]]

\* a written document is channel declarations followed by one programme per
\* record, in the order the records were processed
ProgrammesInOrder(doc) ==
    /\ doc = ChannelDecls(doc) \o Programmes(doc)
    /\ Len(Programmes(doc)) = Len(Programs)
    /\ \A k \in 1 .. Len(Programs) :
          /\ Get(Programmes(doc)[k], "channel") = <<RecordId(Programs[k])>>
          /\ Children(Programmes(doc)[k], "title")[1].text = Fields(Programs[k])[3]

\* C2 as stated: the written document lists the channel declarations in
\* first-seen order, then all programmes in the order their records were
\* processed, and no programme precedes a channel declaration.
C2_ChannelsFirstSeenOrder ==
    output_file # <<>> =>
        /\ DeclaredIds(output_file[1]) = FirstSeen(Programs)
        /\ ProgrammesInOrder(output_file[1])

\* C2 amended: the written document lists the channel declarations in reverse
\* first-seen order (the channel first seen last comes first), then all
\* programmes in the order their records were processed, and no programme
\* precedes a channel declaration.
C2_ChannelsReverseFirstSeenOrder ==
    output_file # <<>> =>
        /\ DeclaredIds(output_file[1]) = Reverse(FirstSeen(Programs))
        /\ ProgrammesInOrder(output_file[1])

\* a document written from records of two channels
C2_Witness ==
    /\ output_file # <<>>
    /\ Len(ChannelDecls(output_file[1])) >= 2
    /\ Len(Programmes(output_file[1])) >= 2

\* C3: the document holds at most one channel declaration per namespaced
\* identifier, and its display name is field 1 of the first record seen for that
\* identifier, whatever names later records of the identifier carry; the written
\* document is that document.
C3_OneDeclarationFirstName ==
    \A data \in {[k \in 1 .. mapped |-> Fields(Processed[k])]} :
    \A ids \in {[k \in 1 .. mapped |-> telerama_to_xmltv_id(data[k][1])]} :
    \A decls \in {ChannelDecls(root)} :
    LET first(id) == CHOOSE k \in 1 .. mapped :
                        ids[k] = id /\ \A j \in 1 .. k - 1 : ids[j] # id
    IN /\ \A a, b \in 1 .. Len(decls) :
             Get(decls[a], "id") = Get(decls[b], "id") => a = b
       /\ \A a \in 1 .. Len(decls) :
             /\ \E k \in 1 .. mapped : ids[k] = Get(decls[a], "id")[1]
             /\ Len(Children(decls[a], "display-name")) = 1
             /\ Children(decls[a], "display-name")[1].text
                  = data[first(Get(decls[a], "id")[1])][2]
       /\ \A k \in 1 .. mapped :
             Len(data[k]) >= 2 =>
                 \E a \in 1 .. Len(decls) : Get(decls[a], "id") = <<ids[k]>>
       /\ output_file # <<>> => output_file = <<root>>

\* a written document after two records of one identifier with different names
C3_Witness ==
    /\ output_file # <<>>
    /\ \E j, k \in 1 .. mapped :
          /\ j < k
          /\ RecordId(Processed[j]) = RecordId(Processed[k])
          /\ Fields(Processed[j])[2] # Fields(Processed[k])[2]

----------------------------------------------------------------------------
(* C4, C5, C7 *)

\* the lines of a details block
DetailLines(details) == StrSplit(details, "\n")

HasPrefix(line, prefix) == Slice(line, 0, Len(prefix)) = prefix

\* a record of 13 fields whose date and times strptime accepts
WellFormed(program) ==
    /\ Len(Fields(program)) = 13
    /\ strptime(Fields(program)[13], Fields(program)[4]) # <<>>
    /\ strptime(Fields(program)[13], Fields(program)[5]) # <<>>

\* C4: for a record with all 13 fields, whatever details-block patterns are
\* absent, mapping the record does not fail and its programme is appended to
\* the document.
C4_AbsentPatternNeverFails ==
    \A k \in 1 .. mapped :
        WellFormed(Processed[k]) =>
            /\ ~(pc = "failed" /\ k = mapped)
            /\ Len(Programmes(root)) >= k

\* C5: once a processed record has fewer than 13 fields the run has failed and
\* no document is written; a document is written only when the run is done, all
\* fetches are over and every fetched record has 13 fields or more and has its
\* programme in the document; after the failure or the write nothing more
\* happens.
C5_NoPartialDocument ==
    /\ (\E k \in 1 .. mapped : Len(Fields(Processed[k])) < 13) =>
           pc = "failed" /\ error = "IndexError" /\ output_file = <<>>
    /\ pc = "failed" => output_file = <<>>
    /\ output_file # <<>> =>
           /\ pc = "done" /\ error = "" /\ FetchDone /\ mapped = Len(Programs)
           /\ \A k \in 1 .. Len(Programs) : Len(Fields(Programs[k])) >= 13
           /\ Len(Programmes(output_file[1])) = Len(Programs)
    /\ pc \in {"failed", "done"} => ~ENABLED Next

\* a run that mapped a record and then failed on a short one
C5_Witness ==
    /\ pc = "failed" /\ error = "IndexError" /\ output_file = <<>>
    /\ Len(Programmes(root)) >= 1
    /\ Len(Fields(Processed[mapped])) < 13

\* the aspect ratio of the first details line that starts with 'En 16:9' or 'En 4:3'
RECURSIVE LineAspect(_)
LineAspect(lines) ==
    IF lines = <<>> THEN <<>>
    ELSE IF HasPrefix(Head(lines), "En 16:9") THEN <<"16:9">>
    ELSE IF HasPrefix(Head(lines), "En 4:3") THEN <<"4:3">>
    ELSE LineAspect(Tail(lines))

HasLine(lines, line) == \E k \in 1 .. Len(lines) : lines[k] = line

\* C7: in the written document, the programme of a record whose details block
\* has a line starting with 'En 16:9' or 'En 4:3' carries a video entry holding
\* that aspect ratio, and the entry carries the HD quality exactly when the
\* details block has a line that is 'HD' alone.
C7_VideoEntry ==
    output_file # <<>> =>
        \A k \in 1 .. Len(Programmes(output_file[1])) :
            LET lines == DetailLines(Fields(Programs[k])[8])
                video == Children(Programmes(output_file[1])[k], "video")
            IN LineAspect(lines) # <<>> =>
                  /\ Len(video) = 1
                  /\ Len(Children(video[1], "aspect")) = 1
                  /\ Children(video[1], "aspect")[1].text = LineAspect(lines)[1]
                  /\ (Len(Children(video[1], "quality")) = 1) = HasLine(lines, "HD")

----------------------------------------------------------------------------
(* C8 *)

\* what follows a label on its line, without the white space around it
LineValue(line, label) == Strip(Slice(line, Len(label), Len(line)))

\* an 'Episode :' line of the form N or N/M
IsEpisodeLine(line) ==
    /\ HasPrefix(line, "Episode :")
    /\ LET parts == StrSplit(LineValue(line, "Episode :"), "/")
       IN Len(parts) \in {1, 2} /\ \A k \in 1 .. Len(parts) : AllDigits(parts[k])

\* a 'Saison :' line holding a number
IsSeasonLine(line) == HasPrefix(line, "Saison :") /\ AllDigits(LineValue(line, "Saison :"))

\* the first line of a block that satisfies Is, <<>> when there is none
FirstLine(lines, Is(_)) ==
    IF \E k \in 1 .. Len(lines) : Is(lines[k])
    THEN <<lines[CHOOSE k \in 1 .. Len(lines) :
                    Is(lines[k]) /\ \A j \in 1 .. k - 1 : ~Is(lines[j])]>>
    ELSE <<>>

\* the numbering the claim gives for an episode line and the season line, if any
ExpectedEpisodeNum(episode, season) ==
    LET parts == StrSplit(LineValue(episode, "Episode :"), "/")
        S == IF season = <<>> THEN 0 ELSE ToInt(LineValue(season[1], "Saison :")) - 1
        E == ToInt(parts[1]) - 1
    IN IF Len(parts) = 2
       THEN ToString(S) \o "." \o ToString(E) \o "/" \o parts[2] \o ".0/1"
       ELSE ToString(S) \o "." \o ToString(E) \o ".0/1"

\* C8: a programme carries an episode numbering exactly when the details block
\* has an 'Episode :' line of the form N or N/M; its text is S.E.0/1 or
\* S.E/M.0/1 with E = N - 1 and S = 0 without a 'Saison :' number line, else the
\* season minus one; a 'Saison :' line alone gives no numbering.
C8_EpisodeNumbering ==
    \A k \in 1 .. Len(Programmes(root)) :
        LET lines == DetailLines(Fields(Programs[k])[8])
            episode == FirstLine(lines, IsEpisodeLine)
            season == FirstLine(lines, IsSeasonLine)
            nums == Children(Programmes(root)[k], "episode-num")
        IN IF episode = <<>> THEN nums = <<>>
           ELSE /\ Len(nums) = 1
                /\ nums[1].text = ExpectedEpisodeNum(episode[1], season)
                /\ Get(nums[1], "system") = <<"xmltv_ns">>

\* Episode 3/10 of Saison 2 written as 1.2/10.0/1
C8_Witness ==
    /\ output_file # <<>> /\ Len(Programmes(output_file[1])) = 1
    /\ HasLine(DetailLines(Fields(Programs[1])[8]), "Episode : 3/10")
    /\ HasLine(DetailLines(Fields(Programs[1])[8]), "Saison : 2")
    /\ Children(Programmes(output_file[1])[1], "episode-num")[1].text = "1.2/10.0/1"

----------------------------------------------------------------------------
(* C9 *)

\* a 'Genre :' line with a value
IsGenreLine(line) ==
    HasPrefix(line, "Genre :") /\ LStrip(Slice(line, Len("Genre :"), Len(line))) # ""

\* the <<lang, text>> pairs of the categories the claim lists for a record
ExpectedCategories(native, lines) ==
    LET genre == FirstLine(lines, IsGenreLine)
        value == IF genre = <<>> THEN ""
                 ELSE LStrip(Slice(genre[1], Len("Genre :"), Len(genre[1])))
    IN (IF translate_categories(native) # ""
        THEN <<<<<<>>, translate_categories(native)>>>> ELSE <<>>)
       \o (IF native # "" THEN <<<<<<"fr">>, native>>>> ELSE <<>>)
       \o (IF genre # <<>> /\ value # native THEN <<<<<<"fr">>, value>>>> ELSE <<>>)

\* C9: the categories of a programme are, in this order, the translated native
\* category if it is not empty, the native category tagged French if it is not
\* empty, and the 'Genre :' value tagged French if there is one and it differs
\* from the native category; no French text appears twice; a native category
\* that is unknown or suppressed gives no translated category and still gives
\* the French one.
C9_Categories ==
    \A k \in 1 .. Len(Programmes(root)) :
        LET data == Fields(Programs[k])
            cats == Children(Programmes(root)[k], "category")
            french == SelectSeq(cats, LAMBDA c : Get(c, "lang") = <<"fr">>)
        IN /\ [j \in 1 .. Len(cats) |-> <<Get(cats[j], "lang"), cats[j].text>>]
                = ExpectedCategories(data[6], DetailLines(data[8]))
           /\ \A a, b \in 1 .. Len(french) : french[a].text = french[b].text => a = b
           /\ data[6] \in {"Divers", "Téléachat", "film"} =>
                 /\ \A j \in 1 .. Len(cats) : Get(cats[j], "lang") = <<"fr">>
                 /\ Len(french) >= 1 /\ french[1].text = data[6]

\* a Film whose details block says 'Genre : Film': two categories, not three
C9_Witness ==
    /\ output_file # <<>> /\ Len(Programmes(output_file[1])) = 1
    /\ Fields(Programs[1])[6] = "Film"
    /\ HasLine(DetailLines(Fields(Programs[1])[8]), "Genre : Film")
    /\ Len(Children(Programmes(output_file[1])[1], "category")) = 2

----------------------------------------------------------------------------
(* C10 *)

\* the requests of a fetch loop over count days from first, for each channel
ExpectedRequests(first, count, chs) ==
    [n \in 1 .. (IF count > 0 THEN count * Len(chs) ELSE 0) |->
        [date |-> first + ((n - 1) \div Len(chs)),
         chaine |-> xmltv_to_telerama_id(chs[((n - 1) % Len(chs)) + 1])]]

\* C10: whatever --days and --offset are, the day count used satisfies
\* offset + days <= 11, is 1 (before the cap) when --days is absent, and the
\* fetch loop requests, for each channel, exactly the days offset ..
\* offset + days - 1 after today, none when the day count is not positive.
C10_FetchWindow ==
    pc # "main" =>
        /\ offset + days <= 11
        /\ offset = (IF args.offset = None THEN 0 ELSE args.offset[1])
        /\ args.days = None => days = Min(1, 11 - offset)
        /\ Len(requested) <= Len(ExpectedRequests(offset, days, channels))
        /\ requested = SubSeq(ExpectedRequests(offset, days, channels), 1, Len(requested))
        /\ (pc \in {"done", "failed"} \/ mapped > 0) =>
               requested = ExpectedRequests(offset, days, channels)
        /\ days <= 0 => requested = <<>>

\* --days 5 --offset 8: three days fetched for every channel, the last one day 10
C10_Witness ==
    /\ pc = "done" /\ args.days = <<5>> /\ args.offset = <<8>>
    /\ days = 3 /\ Len(channels) = 2 /\ Len(requested) = 6
    /\ requested[6].date = 10

----------------------------------------------------------------------------
(* C6 *)

\* the positions of the text where sub occurs
Occurrences(str, sub) ==
    {p \in 0 .. Len(str) - Len(sub) : Slice(str, p, p + Len(sub)) = sub}

\* the nesting depth in front of position p: opens minus closes before p
Depth(str, p) ==
    Cardinality({q \in Occurrences(str, delimiter1) : q < p})
    - Cardinality({q \in Occurrences(str, delimiter2) : q < p})

\* every close has its open before it, and every open is closed
Balanced(str) ==
    /\ \A p \in 0 .. Len(str) : Depth(str, p) >= 0
    /\ Depth(str, Len(str)) = 0

RECURSIVE SumLen(_)
SumLen(segments) == IF segments = <<>> THEN 0 ELSE Len(Head(segments)) + SumLen(Tail(segments))

\* the positions of the text at which the returned segments were cut
Cuts(segments, sep) ==
    {SumLen(SubSeq(segments, 1, k)) + (k - 1) * Len(sep) : k \in 1 .. Len(segments) - 1}

\* C6: on a text with balanced delimiters and k occurrences of the separator at
\* nesting level zero the function returns k + 1 segments, cut at those
\* occurrences; a separator between an open delimiter and its matching close is
\* never a cut.
C6_SplitCount ==
    (spc = "done" /\ Balanced(string)) =>
        LET top == {p \in Occurrences(string, separator) : Depth(string, p) = 0}
            nested == {p \in Occurrences(string, separator) : Depth(string, p) > 0}
        IN /\ Len(result) = Cardinality(top) + 1
           /\ Cuts(result, separator) = top
           /\ Cuts(result, separator) \cap nested = {}

\* a balanced text split once, with another separator inside the parentheses
C6_Witness ==
    /\ spc = "done" /\ Balanced(string) /\ Len(result) = 2
    /\ \E p \in Occurrences(string, separator) : Depth(string, p) > 0

\* C11: for every text, separator and delimiter pair, balanced or not, the call
\* terminates, and it returns at least one segment whose join with the
\* separator is the text.
C11_SplitTerminatesAndJoins ==
    /\ <>(spc = "done")
    /\ [](spc = "done" => /\ Len(result) >= 1
                          /\ StrJoin(result, separator) = string)

-----------------------------------------------------------------------------
(* C12 *)

\* the items of the wizard, and the identifier of an item
Items == 1 .. Len(available_channels)
ItemId(k) == available_channels[k][1]

\* item k was answered a at some prompt
Answered(k, a) == \E p \in 1 .. Len(prompts) : prompts[p] = [item |-> k, answer |-> a]

InList(chs, id) == \E k \in 1 .. Len(chs) : chs[k] = id

\* C12: a channel is written to the configuration exactly when it was answered
\* yes or it is the item at which all was answered or a later item; once all or
\* none has been answered no further item is prompted; after none neither that
\* item nor a later one is selected, and items answered yes before it stay
\* selected; an invalid answer prompts the same item again and leaves the
\* selection as it was.
C12_WizardSelection ==
    /\ [](pc = "configured" =>
            /\ config.exists
            /\ \A k \in Items :
                  InList(config.channels, ItemId(k))
                    <=> \/ Answered(k, "yes")
                        \/ \E j \in 1 .. k : Answered(j, "all")
            /\ \A k \in Items :
                  Answered(k, "none") =>
                      /\ \A j \in k .. Len(available_channels) :
                            ~InList(config.channels, ItemId(j))
                      /\ \A j \in 1 .. k - 1 :
                            Answered(j, "yes") => InList(config.channels, ItemId(j)))
    /\ [](\A p \in 1 .. Len(prompts) :
            /\ prompts[p].answer \in {"all", "none"} => p = Len(prompts)
            /\ (prompts[p].answer \notin ValidAnswers /\ p < Len(prompts)) =>
                  prompts[p + 1].item = prompts[p].item)
    /\ [][(Len(prompts') > Len(prompts)
            /\ prompts'[Len(prompts')].answer \notin ValidAnswers)
           => /\ channels' = channels
              /\ ci' = ci /\ pc' = pc /\ config' = config
              /\ ~select_all' /\ ~select_none']_vars

\* a written configuration after yes, an invalid answer and all, and one after
\* yes and none
C12_Witness ==
    /\ pc = "configured"
    /\ Len(available_channels) >= 3
    /\ Answered(1, "yes")
    /\ \E p \in 1 .. Len(prompts) : prompts[p].answer \notin ValidAnswers
    /\ Answered(2, "all") \/ Answered(2, "none")
    /\ Len(config.channels) \in {1, 3}

====
